---- MODULE Spec2Model ----
(***************************************************************************)
(* A model of crema's confidence-estimation engine: target-decoy           *)
(* competition (Confidence._compete), the classic TDC q-value calculation  *)
(* (qvalues.tdc), the level loops of TdcConfidence and MixmaxConfidence,   *)
(* the PsmDataset constructor and the pairing builder _create_pairing.     *)
(*                                                                         *)
(* A table (pandas.DataFrame) is a sequence of rows; a row is a function   *)
(* from column names to values, and carries the pandas index label in the  *)
(* field "index".  Scores, spectrum, peptide and protein identifiers are   *)
(* integers; a q-value is an exact fraction <<numerator, denominator>>.    *)
(***************************************************************************)
EXTENDS Integers, Sequences, FiniteSets, TLC

VARIABLES
    pc,                          \* position of the modelled call
    args,                        \* arguments of a pure-function call
    ret,                         \* value returned by a pure-function call
    data,                        \* psms.data, aliased by Confidence._data
    peptide_pairing,             \* psms.peptide_pairing
    desc,                        \* the constructor's desc argument
    eval_fdr,                    \* the constructor's eval_fdr argument
    pep_fdr_type,                \* the constructor's pep_fdr_type argument
    _desc,                       \* Confidence._desc
    level_i,                     \* position of the level loop in self._levels
    level_df,                    \* per level, the local df after its q-values
    confidence_estimates,        \* Confidence.confidence_estimates
    decoy_confidence_estimates,  \* Confidence.decoy_confidence_estimates
    error                        \* the exception that ended the call, if any

vars == <<pc, args, ret, data, peptide_pairing, desc, eval_fdr, pep_fdr_type,
          _desc, level_i, level_df, confidence_estimates,
          decoy_confidence_estimates, error>>

runVars == <<data, peptide_pairing, desc, eval_fdr, pep_fdr_type, _desc,
             level_i, level_df, confidence_estimates,
             decoy_confidence_estimates, error>>

----------------------------------------------------------------------------
(* Bounds of the model. *)

MaxCompeteRows == 3
MaxCompeteScore == 2
MaxTdcLen == 4
MaxTdcScore == 3

----------------------------------------------------------------------------
(* Column names of the dataset. *)

_spectrum_columns == <<"file", "scan">>
_peptide_column == "sequence"
_protein_column == "protein"
_target_column == "target"
_score_column == "score"
QValueColumn == "crema q-value"

----------------------------------------------------------------------------
(* pandas primitives used by the engine. *)

Range(s) == {s[i] : i \in 1..Len(s)}

\* A Python value that is either a str or a list of str.
Str(s) == [kind |-> "str", val |-> s]
List(l) == [kind |-> "list", val |-> l]

\* utils.listify: a single column name becomes a one-element list.
listify(obj) == IF obj.kind = "str" THEN <<obj.val>> ELSE obj.val

\* Lexicographic "strictly before" of two rows on the columns `by`.
KeyLess(a, b, by) ==
    \E i \in 1..Len(by) :
        /\ a[by[i]] < b[by[i]]
        /\ \A j \in 1..(i - 1) : a[by[j]] = b[by[j]]

\* The values of the columns `cols` in row r.
KeyOf(r, cols) == [i \in 1..Len(cols) |-> r[cols[i]]]

\* DataFrame.sample(frac=1) under the permutation p of the row positions.
sample(df, p) == [i \in 1..Len(df) |-> df[p[i]]]

\* Insert row r into the sorted table s after every row not greater than r.
InsertSorted(s, r, by) ==
    LET n == Cardinality({i \in 1..Len(s) : ~KeyLess(r, s[i], by)})
    IN  SubSeq(s, 1, n) \o <<r>> \o SubSeq(s, n + 1, Len(s))

\* DataFrame.sort_values(by): ascending, rows equal on `by` keep their order.
RECURSIVE sort_values(_, _)
sort_values(df, by) ==
    IF df = <<>> THEN <<>>
    ELSE InsertSorted(sort_values(SubSeq(df, 1, Len(df) - 1), by),
                      df[Len(df)], by)

SelectRows(df, keepAt) ==
    LET F[i \in 0..Len(df)] ==
            IF i = 0 THEN <<>>
            ELSE IF keepAt[i] THEN Append(F[i - 1], df[i]) ELSE F[i - 1]
    IN  F[Len(df)]

drop_duplicates_on_score(df, subset, keep) ==
    LET cols == <<_score_column>> \o subset
        dupOf(i, j) == KeyOf(df[i], cols) = KeyOf(df[j], cols)
    IN  SelectRows(df, [i \in 1..Len(df) |->
            IF keep = "first"
            THEN \A j \in 1..(i - 1) : ~dupOf(i, j)
            ELSE \A j \in (i + 1)..Len(df) : ~dupOf(i, j)])

\* DataFrame.drop_duplicates(subset, keep): of the rows equal on `subset`
\* only the first (keep = "first") or the last (keep = "last") is retained.
drop_duplicates(df, subset, keep) ==
    LET dupOf(i, j) == KeyOf(df[i], subset) = KeyOf(df[j], subset)
    IN  SelectRows(df, [i \in 1..Len(df) |->
            IF keep = "first"
            THEN \A j \in 1..(i - 1) : ~dupOf(i, j)
            ELSE \A j \in (i + 1)..Len(df) : ~dupOf(i, j)])

----------------------------------------------------------------------------
(* Confidence._compete *)

keep_swapped(d) == IF d THEN "first" ELSE "last"

\* Lines 230-233: which end of the ascending sort wins.
keep_of(d) == IF d THEN "last" ELSE "first"

\* Lines 235-242 under one outcome p of the shuffle.
compete_with(df, group_columns, d, p) ==
    LET cols == listify(group_columns)
    IN  drop_duplicates(
            sort_values(sample(df, p), <<_score_column>> \o cols),
            cols, keep_of(d))

\* Every table _compete can return: one per outcome of the shuffle.
_compete(df, group_columns, d) ==
    {compete_with(df, group_columns, d, p) : p \in Permutations(1..Len(df))}

----------------------------------------------------------------------------
(* Competition on its own: the inputs are drawn in the initial state. *)

CompeteRows ==
    [file : 1..2, scan : 1..2, score : 1..MaxCompeteScore]

\* A table with the default RangeIndex 0..n-1.
WithIndex(rows) ==
    [i \in 1..Len(rows) |->
        [c \in DOMAIN rows[i] \cup {"index"} |->
            IF c = "index" THEN i - 1 ELSE rows[i][c]]]

CompeteTables ==
    UNION {{WithIndex(t) : t \in [1..n -> CompeteRows]} : n \in 0..MaxCompeteRows}

CompeteGroupKeys == {Str("scan"), List(<<"scan">>), List(<<"file", "scan">>)}

RunIdle ==
    /\ data = <<>>
    /\ peptide_pairing = [none |-> TRUE, map |-> <<>>]
    /\ desc = "None"
    /\ eval_fdr = <<0, 1>>
    /\ pep_fdr_type = "classic"
    /\ _desc = "unset"
    /\ level_i = 0
    /\ level_df = <<>>
    /\ confidence_estimates = <<>>
    /\ decoy_confidence_estimates = <<>>
    /\ error = "none"

InitCompete ==
    /\ pc = "call"
    /\ args \in [fn : {"_compete"}, df : CompeteTables,
                 group_columns : CompeteGroupKeys, desc : BOOLEAN]
    /\ ret = <<>>
    /\ RunIdle

CallCompete ==
    /\ pc = "call"
    /\ args.fn = "_compete"
    /\ \E out_df \in _compete(args.df, args.group_columns, args.desc) :
           ret' = out_df
    /\ pc' = "return"
    /\ UNCHANGED <<args, runVars>>

NextCompete == CallCompete

SpecCompete == InitCompete /\ [][NextCompete]_vars

\* The distinct values of the group key in a table.
GroupsOf(df, cols) == {KeyOf(df[i], cols) : i \in 1..Len(df)}

Returned(fn) == pc = "return" /\ args.fn = fn

\* C1: the table _compete returns holds exactly one row for each distinct
\* group-key value of its input: no group of the input is missing from the
\* output and no group is in more than one output row.
C1_OneRowPerGroup ==
    Returned("_compete") =>
        LET cols == listify(args.group_columns)
        IN  /\ GroupsOf(ret, cols) = GroupsOf(args.df, cols)
            /\ \A k, l \in 1..Len(ret) :
                   KeyOf(ret[k], cols) = KeyOf(ret[l], cols) => k = l

\* C1 witness: three rows in two groups of a two-column key were competed.
C1_Witness ==
    /\ Returned("_compete")
    /\ args.group_columns = List(<<"file", "scan">>)
    /\ Len(args.df) = 3
    /\ Len(ret) = 2

\* C2: every row _compete returns is a row of its input, and its score is the
\* extremum of the scores of its group in the input: the maximum when higher
\* is better (desc true), the minimum when lower is better (desc false).
C2_WinnerIsExtremum ==
    Returned("_compete") =>
        LET cols == listify(args.group_columns)
        IN  \A k \in 1..Len(ret) :
                /\ \E i \in 1..Len(args.df) : args.df[i] = ret[k]
                /\ \A j \in 1..Len(args.df) :
                       KeyOf(args.df[j], cols) = KeyOf(ret[k], cols) =>
                           IF args.desc
                           THEN args.df[j].score <= ret[k].score
                           ELSE args.df[j].score >= ret[k].score

\* C2 witness: a group with two different scores and a second group were
\* competed, higher score better.
C2_Witness ==
    /\ Returned("_compete")
    /\ args.desc
    /\ args.group_columns = Str("scan")
    /\ \E i, j, k \in 1..Len(args.df) :
           /\ args.df[i].scan = args.df[j].scan
           /\ args.df[i].score < args.df[j].score
           /\ args.df[k].scan # args.df[i].scan
    /\ Len(ret) = 2

----------------------------------------------------------------------------
(* qvalues.tdc, the classic TDC q-value calculation, after section 4.2 of   *)
(* the specification (qvalues.py is not among the sources).  Where step 4   *)
(* of that section names two scan directions, the model takes the one that  *)
(* the section's own monotonicity requirement, the glossary and the         *)
(* TdcConfidence docstring (confidence.py, lines 304-305) fix: the q-value  *)
(* of an entry is the minimum FDR at which the entry would be accepted.     *)
(* A q-value is kept as the exact fraction <<numerator, denominator>> with  *)
(* a positive denominator; fractions are compared by cross-multiplication.  *)

FracLeq(a, b) == a[1] * b[2] <= b[1] * a[2]
FracEq(a, b) == a[1] * b[2] = b[1] * a[2]
FracMin(a, b) == IF FracLeq(a, b) THEN a ELSE b

Max(a, b) == IF a >= b THEN a ELSE b

AscendingBetter(a, b, d) == a < b

\* Score a is strictly better than score b in the direction d.
Better(a, b, d) == IF d THEN a > b ELSE a < b

\* Step 1: the positions of the entries from best to worst score; entries
\* with equal scores keep their order.
RECURSIVE argsort(_, _, _)
argsort(scores, n, d) ==
    IF n = 0 THEN <<>>
    ELSE LET s == argsort(scores, n - 1, d)
             k == Cardinality({i \in 1..Len(s) :
                                  ~Better(scores[n], scores[s[i]], d)})
         IN  SubSeq(s, 1, k) \o <<n>> \o SubSeq(s, k + 1, Len(s))

FdrWithoutPlusOne(D, T) == <<D, Max(T, 1)>>

\* Step 3: the instantaneous FDR with D decoys and T targets seen so far.
Fdr(D, T) == <<D + 1, Max(T, 1)>>

NeverSameScore(a, b) == FALSE

\* Step 5: q-values are assigned per unique score value.
SameScore(a, b) == a = b

NoRunningMin(fdr, q) == fdr

\* Step 4: the smallest FDR seen so far when scanning from the worst entry.
RunningMin(fdr, q) == FracMin(fdr, q)

tdc(scores, target, d) ==
    LET n == Len(scores)
        srt_idx == argsort(scores, n, d)
        \* Step 2: cumulative target and decoy counts, best to worst.
        cum_targets[k \in 0..n] ==
            IF k = 0 THEN 0
            ELSE cum_targets[k - 1] + (IF target[srt_idx[k]] THEN 1 ELSE 0)
        cum_decoys[k \in 0..n] ==
            IF k = 0 THEN 0
            ELSE cum_decoys[k - 1] + (IF target[srt_idx[k]] THEN 0 ELSE 1)
        fdr == [k \in 1..n |-> Fdr(cum_decoys[k], cum_targets[k])]
        \* Steps 4 and 5: from the worst entry to the best, each unique score
        \* takes the FDR at its last entry, lowered to the running minimum.
        qvals[k \in 1..n] ==
            IF k = n THEN fdr[n]
            ELSE IF SameScore(scores[srt_idx[k]], scores[srt_idx[k + 1]])
                 THEN qvals[k + 1]
                 ELSE RunningMin(fdr[k], qvals[k + 1])
    IN  [i \in 1..n |-> qvals[CHOOSE k \in 1..n : srt_idx[k] = i]]

----------------------------------------------------------------------------
(* The q-value calculation on its own. *)

TdcInputs ==
    UNION {[fn : {"tdc"}, scores : [1..n -> 1..MaxTdcScore],
            target : [1..n -> BOOLEAN], desc : BOOLEAN] : n \in 0..MaxTdcLen}

\* The worked example: targets 10, 9, 8, 7 and decoys 1, 2, 3, 4, higher
\* score better.
WorkedExample ==
    [fn |-> "tdc", scores |-> <<10, 9, 8, 7, 1, 2, 3, 4>>,
     target |-> <<TRUE, TRUE, TRUE, TRUE, FALSE, FALSE, FALSE, FALSE>>,
     desc |-> TRUE]

InitTdc ==
    /\ pc = "call"
    /\ args \in TdcInputs \cup {WorkedExample}
    /\ ret = <<>>
    /\ RunIdle

CallTdc ==
    /\ pc = "call"
    /\ args.fn = "tdc"
    /\ ret' = tdc(args.scores, args.target, args.desc)
    /\ pc' = "return"
    /\ UNCHANGED <<args, runVars>>

NextTdc == CallTdc

SpecTdc == InitTdc /\ [][NextTdc]_vars

\* Entry i scores at least as well as entry j in the call's direction.
AtLeastAsGood(i, j) == ~Better(args.scores[j], args.scores[i], args.desc)

\* The instantaneous FDR at entry j: (D + 1) / max(T, 1) with D and T the
\* decoys and targets that score at least as well as entry j.
FdrAtEntry(j) ==
    LET D == Cardinality({k \in 1..Len(args.scores) :
                             ~args.target[k] /\ AtLeastAsGood(k, j)})
        T == Cardinality({k \in 1..Len(args.scores) :
                             args.target[k] /\ AtLeastAsGood(k, j)})
    IN  <<D + 1, IF T >= 1 THEN T ELSE 1>>

\* C3: ordered from best score to worst, the q-values of classic TDC are
\* non-decreasing: an entry with a worse score never has a smaller q-value
\* than an entry with a better score.
C3_QValuesMonotone ==
    Returned("tdc") =>
        \A i, j \in 1..Len(ret) :
            Better(args.scores[i], args.scores[j], args.desc) =>
                FracLeq(ret[i], ret[j])

\* C3 witness: a decoy outscores a target, so the instantaneous FDR falls
\* from the better entry to the worse one, and the q-values were computed.
C3_Witness ==
    /\ Returned("tdc")
    /\ \E i, j \in 1..Len(ret) :
           /\ Better(args.scores[i], args.scores[j], args.desc)
           /\ ~FracLeq(FdrAtEntry(i), FdrAtEntry(j))

\* C4: within one q-value computation two entries with the same score get the
\* same q-value, whatever their labels and their order in the input.
C4_TiesShareQValue ==
    Returned("tdc") =>
        \A i, j \in 1..Len(ret) :
            args.scores[i] = args.scores[j] => FracEq(ret[i], ret[j])

\* C4 witness: a target and a decoy with the same score, the decoy first in
\* the input, were given q-values.
C4_Witness ==
    /\ Returned("tdc")
    /\ \E i, j \in 1..Len(ret) :
           /\ i < j
           /\ args.scores[i] = args.scores[j]
           /\ ~args.target[i]
           /\ args.target[j]

\* C5 as stated: the q-value of an entry is the minimum of the instantaneous
\* FDR over the entries that score at least as well as it.
C5_MinOverBetterEntries ==
    Returned("tdc") =>
        \A i \in 1..Len(ret) :
            /\ \E j \in 1..Len(ret) :
                   AtLeastAsGood(j, i) /\ FracEq(ret[i], FdrAtEntry(j))
            /\ \A j \in 1..Len(ret) :
                   AtLeastAsGood(j, i) => FracLeq(ret[i], FdrAtEntry(j))

\* C5 (amended): the q-value of an entry is the minimum of the instantaneous
\* FDR (D + 1) / max(T, 1) over the entries that score no better than it (the
\* entry itself and every entry with an equal or worse score); with no target
\* at or above a score the denominator is 1.
C5_MinOverWorseEntries ==
    Returned("tdc") =>
        \A i \in 1..Len(ret) :
            /\ ret[i][2] >= 1
            /\ \E j \in 1..Len(ret) :
                   AtLeastAsGood(i, j) /\ FracEq(ret[i], FdrAtEntry(j))
            /\ \A j \in 1..Len(ret) :
                   AtLeastAsGood(i, j) => FracLeq(ret[i], FdrAtEntry(j))

\* C5 witness: the best entry is a decoy (no target at or above it) and a
\* worse entry has a smaller instantaneous FDR, which the best entry takes.
C5_Witness ==
    /\ Returned("tdc")
    /\ \E i, j \in 1..Len(ret) :
           /\ \A k \in 1..Len(ret) : AtLeastAsGood(i, k)
           /\ ~args.target[i]
           /\ FdrAtEntry(i)[2] = 1
           /\ Better(args.scores[i], args.scores[j], args.desc)
           /\ ~FracLeq(FdrAtEntry(i), FdrAtEntry(j))
           /\ FracEq(ret[i], FdrAtEntry(j))

\* C6: for targets 10, 9, 8, 7 and decoys 1, 2, 3, 4, higher score better, the
\* worst target (score 7) gets the q-value 1/4 and the q-values of the targets
\* never increase from the worst target toward the better ones.
C6_WorkedExample ==
    (Returned("tdc") /\ args = WorkedExample) =>
        /\ FracEq(ret[4], <<1, 4>>)
        /\ \A i, j \in 1..4 :
               args.scores[i] > args.scores[j] => FracLeq(ret[i], ret[j])

\* C6 witness: the q-values of the worked example were computed.
C6_Witness ==
    /\ Returned("tdc")
    /\ args = WorkedExample
    /\ Len(ret) = 8

----------------------------------------------------------------------------
(* TdcConfidence: the constructor and the level loop. *)

\* Line 153.
_levels == <<"psms", "peptides", "proteins">>

\* Lines 154-158.
_level_columns ==
    <<List(_spectrum_columns), Str(_peptide_column), Str(_protein_column)>>

eval_fdr_strictly_inside(e) == e[1] > 0 /\ e[1] < e[2]

\* Line 139: eval_fdr (a fraction) is neither below 0 nor above 1.
valid_eval_fdr(e) == ~(e[1] < 0 \/ e[1] > e[2])

\* The protein ids, in string order, as the lists of proteins they name:
\* id 2 is the string "A,B".
ProteinNames == <<<<"A">>, <<"A", "B">>, <<"B">>>>

never_contains_delim(protein) == FALSE

\* Line 404: Series.str.contains(",").
contains_delim(protein) == Len(ProteinNames[protein]) > 1

Columns(df) == DOMAIN df[1] \ {"index"}

\* utils.new_column: the name itself unless the table has such a column.
new_column(name, df) ==
    LET candidates == <<name, name \o "_1", name \o "_2">>
        free == {i \in 1..Len(candidates) : candidates[i] \notin Columns(df)}
    IN  candidates[CHOOSE i \in free : \A j \in free : i <= j]

\* df[col] = values: the column is added to, or replaced in, every row.
SetColumn(df, col, values) ==
    [i \in 1..Len(df) |->
        [c \in DOMAIN df[i] \cup {col} |->
            IF c = col THEN values[i] ELSE df[i][c]]]

\* df.loc[:, cols]
LocColumns(df, cols) ==
    [i \in 1..Len(df) |-> [c \in Range(cols) \cup {"index"} |-> df[i][c]]]

Column(df, col) == [i \in 1..Len(df) |-> df[i][col]]

pairing_ignored(df, pairing) ==
    [i \in 1..Len(df) |-> df[i][_peptide_column]]

\* Lines 388-390: pairing.get(x, x) on the peptide column.
pairing_column(df, pairing) ==
    [i \in 1..Len(df) |->
        LET x == df[i][_peptide_column]
        IN  IF x \in DOMAIN pairing THEN pairing[x] ELSE x]

RECURSIVE SumScores(_)
SumScores(df) ==
    IF df = <<>> THEN 0 ELSE df[1][_score_column] + SumScores(Tail(df))

\* Lines 415-418: groupby([protein, target]).agg(sum).reset_index(): one row
\* per (protein, target) pair, in ascending order of the pair.
groupby_sum(df) ==
    LET keyOf(r) == <<r[_protein_column], IF r[_target_column] THEN 1 ELSE 0>>
        keys == {keyOf(df[i]) : i \in 1..Len(df)}
        before(a, b) == a[1] < b[1] \/ (a[1] = b[1] /\ a[2] < b[2])
        rank(k) == Cardinality({j \in keys : before(j, k)}) + 1
        keyAt(n) == CHOOSE k \in keys : rank(k) = n
    IN  [n \in 1..Cardinality(keys) |->
            LET k == keyAt(n)
                members == SelectRows(df, [i \in 1..Len(df) |-> keyOf(df[i]) = k])
            IN  [index |-> n - 1, protein |-> k[1], target |-> (k[2] = 1),
                 score |-> SumScores(members)]]

\* Lines 404-418: the rows in a single protein, summed per (protein, target).
protein_aggregation(df) ==
    groupby_sum(SelectRows(df, [i \in 1..Len(df) |->
                    ~contains_delim(df[i][_protein_column])]))

\* Lines 422-429: the q-value column of a competed table.
with_qvalues(df, d) ==
    SetColumn(df, QValueColumn,
              tdc(Column(df, _score_column), Column(df, _target_column), d))

\* Line 438: df.loc[targets, :]
loc_targets(df) == SelectRows(df, [i \in 1..Len(df) |-> df[i][_target_column]])

loc_decoys_unnegated(df) ==
    SelectRows(df, [i \in 1..Len(df) |-> df[i][_target_column]])

\* Line 439: df.loc[~targets, :]
loc_decoys(df) == SelectRows(df, [i \in 1..Len(df) |-> ~df[i][_target_column]])

Desc == _desc = "True"

select_desc_ties_high(psms, e) ==
    LET scores == Column(psms, _score_column)
        targ == Column(psms, _target_column)
        passing(d) == Cardinality({i \in 1..Len(psms) :
                                      FracLeq(tdc(scores, targ, d)[i], e)})
    IN  IF passing(TRUE) >= passing(FALSE) THEN "True" ELSE "False"

\* Lines 143-146: the direction that passes more PSMs at eval_fdr.
select_desc(psms, e) ==
    LET scores == Column(psms, _score_column)
        targ == Column(psms, _target_column)
        passing(d) == Cardinality({i \in 1..Len(psms) :
                                      FracLeq(tdc(scores, targ, d)[i], e)})
        t_pass == passing(TRUE)
        f_pass == passing(FALSE)
    IN  IF t_pass > f_pass THEN "True" ELSE "False"

Put(dict, key, value) ==
    [k \in DOMAIN dict \cup {key} |-> IF k = key THEN value ELSE dict[k]]

EmptyDict == [k \in {} |-> <<>>]

----------------------------------------------------------------------------
(* The inputs of a run. *)

MaxRows == 3

Scans == {1, 2}
Scores == {1, 2}

\* The peptides a PSM can match: a target and its decoy in protein A, a
\* sequence that is both a target and a decoy of protein B, and a target
\* shared by the proteins A and B.
Peptides ==
    {[sequence |-> 1, target |-> TRUE, protein |-> 1],
     [sequence |-> 2, target |-> FALSE, protein |-> 1],
     [sequence |-> 3, target |-> TRUE, protein |-> 3],
     [sequence |-> 3, target |-> FALSE, protein |-> 3],
     [sequence |-> 4, target |-> TRUE, protein |-> 2]}

PsmRows ==
    {[file |-> 1, scan |-> sc, sequence |-> p.sequence, protein |-> p.protein,
      target |-> p.target, score |-> s] : sc \in Scans, p \in Peptides, s \in Scores}

\* A fixed listing order of the PSMs: the engine shuffles a table before each
\* sort, so the tables are drawn in this one order.
RowRank(r) ==
    ((r.scan * 10 + r.sequence) * 2 + (IF r.target THEN 1 ELSE 0)) * 10 + r.score

\* PsmDataset.__init__ (dataset.py, lines 84-91) admits a table only with at
\* least one target and at least one decoy.
Datasets ==
    {WithIndex(t) : t \in
        {t \in UNION {[1..n -> PsmRows] : n \in 2..MaxRows} :
            /\ \A i \in 1..(Len(t) - 1) : RowRank(t[i]) <= RowRank(t[i + 1])
            /\ \E i \in 1..Len(t) : t[i].target
            /\ \E i \in 1..Len(t) : ~t[i].target}}

NoPairing == [none |-> TRUE, map |-> EmptyDict]
Pairing(m) == [none |-> FALSE, map |-> m]

\* None, the map from the target sequence 1 to its decoy sequence 2, or a
\* map in which the decoy of target 1 is sequence 3, itself a target whose
\* decoy is sequence 2.
Pairings == {NoPairing, Pairing(1 :> 2), Pairing((1 :> 3) @@ (3 :> 2))}

\* -0.1, 0, 1 and 1.1
EvalFdrs == {<<-1, 10>>, <<0, 1>>, <<1, 1>>, <<11, 10>>}

PepFdrTypes == {"classic", "peptide-only", "psm-peptide", "psm-only"}

Init ==
    /\ pc = "__init__"
    /\ args = [fn |-> "TdcConfidence"]
    /\ ret = <<>>
    /\ data \in Datasets
    /\ peptide_pairing \in Pairings
    /\ desc \in {"None", "True", "False"}
    /\ eval_fdr \in EvalFdrs
    /\ pep_fdr_type \in PepFdrTypes
    /\ _desc = "unset"
    /\ level_i = 0
    /\ level_df = EmptyDict
    /\ confidence_estimates = EmptyDict
    /\ decoy_confidence_estimates = EmptyDict
    /\ error = "none"

EvalFdrError == "ValueError: 'eval_fdr' should be between 0 and 1."
PairingError ==
    "ValueError: Must provide paired target decoy peptide infomation"
PepFdrTypeError == "ValueError: not a valid value for pep_fdr_type"

return_after_error(e) ==
    /\ pc' = "done"
    /\ error' = e

\* raise: the exception leaves the constructor, which returns no object.
Raise(e) ==
    /\ pc' = "raised"
    /\ error' = e

\* Confidence.__init__, lines 139-161.
ConfidenceInit ==
    /\ pc = "__init__"
    /\ IF ~valid_eval_fdr(eval_fdr)
       THEN /\ Raise(EvalFdrError)
            /\ UNCHANGED _desc
       ELSE /\ _desc' = IF desc = "None" THEN select_desc(data, eval_fdr)
                        ELSE desc
            /\ pc' = "_assign_confidence"
            /\ UNCHANGED error
    /\ UNCHANGED <<args, ret, data, peptide_pairing, desc, eval_fdr,
                   pep_fdr_type, level_i, level_df, confidence_estimates,
                   decoy_confidence_estimates>>

nothing_requires_pairing(t) == FALSE

\* Line 365: every strategy but classic needs the pairing map.
requires_pairing(t) == t # "classic"

\* TdcConfidence._assign_confidence, lines 364-369.
AssignConfidence ==
    /\ pc = "_assign_confidence"
    /\ IF peptide_pairing.none /\ requires_pairing(pep_fdr_type)
       THEN /\ Raise(PairingError)
            /\ UNCHANGED level_i
       ELSE /\ pc' = "level"
            /\ level_i' = 1
            /\ UNCHANGED error
    /\ UNCHANGED <<args, ret, data, peptide_pairing, desc, eval_fdr,
                   pep_fdr_type, _desc, level_df, confidence_estimates,
                   decoy_confidence_estimates>>

skip_a_level(i) == i + 2

\* Line 371: the loop goes on to the next entry of self.levels.
next_level(i) == i + 1

\* Lines 421-439 for one outcome df of the level's last competition, and the
\* step of the loop to the next level.
StoreLevel(level, df) ==
    LET scored == with_qvalues(df, Desc)
    IN  /\ level_df' = Put(level_df, level, scored)
        /\ confidence_estimates' =
               Put(confidence_estimates, level, loc_targets(scored))
        /\ decoy_confidence_estimates' =
               Put(decoy_confidence_estimates, level, loc_decoys(scored))
        /\ level_i' = next_level(level_i)
        /\ pc' = IF next_level(level_i) > Len(_levels)
                 THEN "_prettify_tables" ELSE "level"

AtLevel(level) ==
    /\ pc = "level"
    /\ level_i \in 1..Len(_levels)
    /\ _levels[level_i] = level

\* The loop body at the psms level: lines 372-373 and 421-439.
LevelPsms ==
    /\ AtLevel("psms")
    /\ \E df \in _compete(data, _level_columns[level_i], Desc) :
           StoreLevel("psms", df)
    /\ UNCHANGED <<args, ret, data, peptide_pairing, desc, eval_fdr,
                   pep_fdr_type, _desc, error>>

\* The table the peptide level competes, the columns it groups on, and the
\* table self.data names afterwards (lines 375-392).
PeptideInputs ==
    IF pep_fdr_type = "classic"
    THEN {[df |-> data, group_cols |-> List(listify(_level_columns[level_i])),
           data |-> data]}
    ELSE LET competed == IF pep_fdr_type = "psm-peptide"
                         THEN _compete(data, List(_spectrum_columns), Desc)
                         ELSE {data}
         IN  {LET pair_col == new_column("pairing", df)
                  paired == SetColumn(df, pair_col,
                                pairing_column(df, peptide_pairing.map))
                  group_cols == SelectSeq(
                      listify(_level_columns[level_i]) \o <<pair_col>>,
                      LAMBDA c : c # _peptide_column)
              IN  [df |-> paired, group_cols |-> List(group_cols),
                   data |-> IF pep_fdr_type = "psm-peptide" THEN data
                            ELSE paired] : df \in competed}

any_pep_fdr_type(t) == TRUE

\* Lines 376-397: the names the peptide level accepts.
valid_pep_fdr_type(t) == t \in {"classic", "peptide-only", "psm-peptide"}

\* The loop body at the peptides level: lines 372-397 and 421-439.
LevelPeptides ==
    /\ AtLevel("peptides")
    /\ IF valid_pep_fdr_type(pep_fdr_type)
       THEN /\ \E in \in PeptideInputs :
                   /\ data' = in.data
                   /\ \E df \in _compete(in.df, in.group_cols, Desc) :
                          StoreLevel("peptides", df)
            /\ UNCHANGED error
       ELSE /\ Raise(PepFdrTypeError)
            /\ UNCHANGED <<data, level_i, level_df, confidence_estimates,
                           decoy_confidence_estimates>>
    /\ UNCHANGED <<args, ret, peptide_pairing, desc, eval_fdr, pep_fdr_type,
                   _desc>>

\* Lines 400-418: the PSM-level winners in a single protein, summed per
\* (protein, target) pair.
ProteinInputs ==
    {protein_aggregation(df) :
        df \in _compete(data, List(_spectrum_columns), Desc)}

\* The loop body at the proteins level: lines 372-373 and 398-439.
LevelProteins ==
    /\ AtLevel("proteins")
    /\ \E in \in ProteinInputs :
           \E df \in _compete(in, _level_columns[level_i], Desc) :
               StoreLevel("proteins", df)
    /\ UNCHANGED <<args, ret, data, peptide_pairing, desc, eval_fdr,
                   pep_fdr_type, _desc, error>>

\* The columns of the result tables (lines 186-196).
cols == _spectrum_columns \o <<_peptide_column, _score_column, QValueColumn>>
prot_cols == <<_protein_column, _score_column, QValueColumn>>

\* Confidence._prettify_tables, lines 198-208.
prettify(estimates) ==
    [level \in DOMAIN estimates |->
        IF level # "proteins" THEN LocColumns(estimates[level], cols)
        ELSE LocColumns(estimates[level], prot_cols)]

\* Line 167, after which the constructor returns.
PrettifyTables ==
    /\ pc = "_prettify_tables"
    /\ confidence_estimates' = prettify(confidence_estimates)
    /\ decoy_confidence_estimates' = prettify(decoy_confidence_estimates)
    /\ pc' = "done"
    /\ UNCHANGED <<args, ret, data, peptide_pairing, desc, eval_fdr,
                   pep_fdr_type, _desc, level_i, level_df, error>>

Next ==
    \/ ConfidenceInit
    \/ AssignConfidence
    \/ LevelPsms
    \/ LevelPeptides
    \/ LevelProteins
    \/ PrettifyTables

Spec == Init /\ [][Next]_vars

----------------------------------------------------------------------------
(* Properties of a TDC run. *)

IndexOf(df) == {df[i].index : i \in 1..Len(df)}

\* The rows of tbl are exactly the rows of df whose target flag is `flag`,
\* each once, with the values df has in the columns tbl keeps.
HoldsRowsOf(tbl, df, flag) ==
    /\ \A k \in 1..Len(tbl) :
           \E i \in 1..Len(df) :
               /\ df[i].target = flag
               /\ \A c \in DOMAIN tbl[k] : tbl[k][c] = df[i][c]
    /\ \A i \in 1..Len(df) :
           df[i].target = flag => \E k \in 1..Len(tbl) : tbl[k].index = df[i].index
    /\ \A k, l \in 1..Len(tbl) : tbl[k].index = tbl[l].index => k = l

\* C7: at every level of a TDC run the target table holds exactly the rows of
\* the level's post-competition table whose target flag is true and the decoy
\* table exactly those whose flag is false: the two tables are disjoint, no
\* target table holds a decoy row (nor a decoy table a target row), and
\* together they hold every row of the post-competition table.
C7_TargetDecoyPartition ==
    /\ DOMAIN confidence_estimates = DOMAIN level_df
    /\ DOMAIN decoy_confidence_estimates = DOMAIN level_df
    /\ \A level \in DOMAIN level_df :
           LET df == level_df[level]
               targets == confidence_estimates[level]
               decoys == decoy_confidence_estimates[level]
           IN  /\ HoldsRowsOf(targets, df, TRUE)
               /\ HoldsRowsOf(decoys, df, FALSE)
               /\ IndexOf(targets) \cap IndexOf(decoys) = {}
               /\ IndexOf(targets) \cup IndexOf(decoys) = IndexOf(df)
               /\ pc # "done" =>
                      /\ \A k \in 1..Len(targets) : targets[k].target
                      /\ \A k \in 1..Len(decoys) : ~decoys[k].target

\* C7 witness: the psms level kept a target and a decoy, and the proteins
\* level has been stored as well.
C7_Witness ==
    /\ pc = "_prettify_tables"
    /\ Len(confidence_estimates["psms"]) = 1
    /\ Len(decoy_confidence_estimates["psms"]) = 1
    /\ Len(confidence_estimates["proteins"]) = 1

Stored == DOMAIN level_df

\* C8: a TDC run processes psms, then peptides, then proteins, each once and
\* never again; when the run completes, confidence_estimates and
\* decoy_confidence_estimates each have exactly the keys psms, peptides and
\* proteins.
C8_LevelsInOrderOnce ==
    /\ [](pc = "done" =>
            /\ DOMAIN confidence_estimates = {"psms", "peptides", "proteins"}
            /\ DOMAIN decoy_confidence_estimates =
                   {"psms", "peptides", "proteins"})
    /\ [][/\ Stored' # Stored =>
                \/ Stored = {} /\ Stored' = {"psms"}
                \/ Stored = {"psms"} /\ Stored' = {"psms", "peptides"}
                \/ Stored = {"psms", "peptides"}
                   /\ Stored' = {"psms", "peptides", "proteins"}
           /\ \A level \in Stored :
                  /\ level \in Stored'
                  /\ level_df'[level] = level_df[level]
           /\ DOMAIN confidence_estimates' = Stored'
           /\ DOMAIN decoy_confidence_estimates' = Stored']_vars

\* C8 witness: a psm-peptide run has completed with its three levels.
C8_Witness ==
    /\ pc = "done"
    /\ pep_fdr_type = "psm-peptide"
    /\ Stored = {"psms", "peptides", "proteins"}

NothingComputed ==
    /\ _desc = "unset"
    /\ level_i = 0
    /\ DOMAIN level_df = {}
    /\ DOMAIN confidence_estimates = {}
    /\ DOMAIN decoy_confidence_estimates = {}

\* C9: the constructor accepts eval_fdr = 0 and eval_fdr = 1 without the
\* eval_fdr error, and for every eval_fdr below 0 or above 1 it raises that
\* error before any direction is selected and before any level is competed,
\* scored or stored.
C9_EvalFdrValidation ==
    pc # "__init__" =>
        /\ (eval_fdr[1] * 1 >= 0 * eval_fdr[2] /\ eval_fdr[1] * 1 <= 1 * eval_fdr[2])
               => error # EvalFdrError
        /\ (eval_fdr[1] * 1 < 0 * eval_fdr[2] \/ eval_fdr[1] * 1 > 1 * eval_fdr[2])
               => (pc = "raised" /\ error = EvalFdrError /\ NothingComputed)
        /\ eval_fdr \in {<<0, 1>>, <<1, 1>>} => error # EvalFdrError
        /\ eval_fdr \in {<<-1, 10>>, <<11, 10>>} => error = EvalFdrError

\* C9 witness: eval_fdr = 1.1 was rejected in a call that left the direction
\* to be selected.
C9_Witness ==
    /\ pc = "raised"
    /\ eval_fdr = <<11, 10>>
    /\ desc = "None"
    /\ error = EvalFdrError

UnknownPepFdrType ==
    pep_fdr_type \notin {"classic", "peptide-only", "psm-peptide"}

\* C10: a TDC run whose pep_fdr_type is none of classic, peptide-only and
\* psm-peptide ends in a validation error, with or without a pairing map: it
\* never completes and never stores the peptides level, it stops only by
\* raising a ValueError, and its step at the peptides level (with a pairing
\* map) or at the pairing check (without one) raises.
C10_UnknownPepFdrTypeRaises ==
    /\ [](UnknownPepFdrType =>
            /\ pc \notin {"done", "_prettify_tables"}
            /\ "peptides" \notin DOMAIN confidence_estimates
            /\ "proteins" \notin DOMAIN confidence_estimates
            /\ pc = "raised" =>
                   error \in {EvalFdrError, PairingError, PepFdrTypeError}
            /\ pc # "raised" =>
                   \/ pc \in {"__init__", "_assign_confidence"}
                   \/ pc = "level" /\ level_i \in {1, 2})
    /\ [][(UnknownPepFdrType /\ pc = "level" /\ level_i = 2) =>
              (pc' = "raised" /\ error' = PepFdrTypeError)]_vars
    /\ [][(UnknownPepFdrType /\ pc = "_assign_confidence"
               /\ peptide_pairing.none) =>
              (pc' = "raised" /\ error' = PairingError)]_vars

\* C10 witness: with a pairing map, the unknown name was rejected at the
\* peptides level, after the psms level had been stored.
C10_Witness ==
    /\ pc = "raised"
    /\ pep_fdr_type = "psm-only"
    /\ ~peptide_pairing.none
    /\ error = PepFdrTypeError
    /\ DOMAIN confidence_estimates = {"psms"}

\* C11: with pep_fdr_type = classic a TDC run without a pairing map is never
\* stopped by an error (eval_fdr being valid) and goes from the pairing check
\* into the level loop; with peptide-only or psm-peptide and no pairing map
\* the pairing check raises, and no level, psms included, is ever competed or
\* stored.
C11_PairingRequiredUnlessClassic ==
    /\ []((peptide_pairing.none /\ pep_fdr_type = "classic"
                /\ valid_eval_fdr(eval_fdr)) =>
              (pc # "raised" /\ error = "none"))
    /\ [][(peptide_pairing.none /\ pep_fdr_type = "classic"
               /\ pc = "_assign_confidence") =>
              (pc' = "level" /\ level_i' = 1)]_vars
    /\ []((peptide_pairing.none
                /\ pep_fdr_type \in {"peptide-only", "psm-peptide"}) =>
              /\ pc \in {"__init__", "_assign_confidence", "raised"}
              /\ level_i = 0
              /\ DOMAIN level_df = {}
              /\ DOMAIN confidence_estimates = {}
              /\ DOMAIN decoy_confidence_estimates = {}
              /\ pc = "raised" => error \in {EvalFdrError, PairingError})
    /\ [][(peptide_pairing.none
               /\ pep_fdr_type \in {"peptide-only", "psm-peptide"}
               /\ pc = "_assign_confidence") =>
              (pc' = "raised" /\ error' = PairingError)]_vars

\* C11 witness: a classic run without a pairing map has completed its three
\* levels.
C11_Witness ==
    /\ pc = "done"
    /\ peptide_pairing.none
    /\ pep_fdr_type = "classic"
    /\ DOMAIN confidence_estimates = {"psms", "peptides", "proteins"}

----------------------------------------------------------------------------
(* MixmaxConfidence.  qvalues.mixmax is modelled from section 4.2 of the   *)
(* specification: pi_zero is the decoy-to-target ratio (at most 1), the    *)
(* FDR at a target score is pi_zero times the decoys at or better than it  *)
(* over the targets at or better than it (at most 1), and the q-values are *)
(* the running minimum of the FDR from the worst target to the best.       *)

FracCap(a) == IF a[1] > a[2] THEN <<1, 1>> ELSE a

\* qvalues.mixmax: target_scores and decoy_scores are ordered worst to best
\* and a higher score is better; the result is <<pi_zero, q-values>>.
mixmax(target_scores, decoy_scores) ==
    LET n == Len(target_scores)
        pi0 == FracCap(<<Len(decoy_scores), Max(n, 1)>>)
        atOrBetter(scores, s) ==
            Cardinality({j \in 1..Len(scores) : scores[j] >= s})
        fdr == [k \in 1..n |->
                   FracCap(<<pi0[1] * atOrBetter(decoy_scores, target_scores[k]),
                             pi0[2] * Max(atOrBetter(target_scores,
                                                     target_scores[k]), 1)>>)]
        qvals[k \in 1..n] ==
            IF k = 1 THEN fdr[1]
            ELSE IF target_scores[k] = target_scores[k - 1] THEN qvals[k - 1]
                 ELSE FracMin(fdr[k], qvals[k - 1])
    IN  <<pi0, [k \in 1..n |-> qvals[k]]>>

Reverse(df) == [i \in 1..Len(df) |-> df[Len(df) + 1 - i]]

Negate(df) ==
    SetColumn(df, _score_column, [i \in 1..Len(df) |-> 0 - df[i][_score_column]])

\* Lines 535-547: the competition of the targets (or of the decoys) alone,
\* with ignore_index=True.
mixmax_compete(df, group_cols, d) ==
    {WithIndex(t) : t \in _compete(df, List(group_cols), d)}

\* Lines 559-594 for one outcome of the two competitions: the target table
\* that is stored, best score first.
mixmax_targets(targets_sorted, decoys_sorted, d) ==
    LET t == IF d THEN targets_sorted ELSE Reverse(Negate(targets_sorted))
        dc == IF d THEN decoys_sorted ELSE Reverse(Negate(decoys_sorted))
        q == mixmax(Column(t, _score_column), Column(dc, _score_column))[2]
        scored == Reverse(SetColumn(t, QValueColumn, q))
    IN  IF d THEN scored ELSE Negate(scored)

desc_never_required(d) == FALSE

\* Line 500: desc == None.
desc_is_none(d) == d = "None"

DescError == "ValueError: 'desc' has to be set for mix-max."

InitMixmax ==
    /\ pc = "MixmaxConfidence.__init__"
    /\ args = [fn |-> "MixmaxConfidence"]
    /\ ret = <<>>
    /\ data \in Datasets
    /\ peptide_pairing = NoPairing
    /\ desc \in {"None", "True", "False"}
    /\ eval_fdr \in EvalFdrs
    /\ pep_fdr_type \in {"classic", "peptide-only"}
    /\ _desc = "unset"
    /\ level_i = 0
    /\ level_df = EmptyDict
    /\ confidence_estimates = EmptyDict
    /\ decoy_confidence_estimates = EmptyDict
    /\ error = "none"

\* MixmaxConfidence.__init__, lines 483-508.
MixmaxInit ==
    /\ pc = "MixmaxConfidence.__init__"
    /\ IF desc_is_none(desc)
       THEN Raise(DescError)
       ELSE /\ pc' = "__init__"
            /\ UNCHANGED error
    /\ UNCHANGED <<args, ret, data, peptide_pairing, desc, eval_fdr,
                   pep_fdr_type, _desc, level_i, level_df,
                   confidence_estimates, decoy_confidence_estimates>>

\* Line 514: the loop starts at the first level.
MixmaxAssignConfidence ==
    /\ pc = "_assign_confidence"
    /\ pc' = "level"
    /\ level_i' = 1
    /\ UNCHANGED <<args, ret, data, peptide_pairing, desc, eval_fdr,
                   pep_fdr_type, _desc, level_df, confidence_estimates,
                   decoy_confidence_estimates, error>>

mixmax_skips_proteins_too(level) == level \in {"peptides", "proteins"}

\* Line 515: the levels the loop passes over.
mixmax_skips(level) == level = "peptides"

MixmaxAdvance ==
    /\ level_i' = next_level(level_i)
    /\ pc' = IF next_level(level_i) > Len(_levels)
             THEN "_prettify_tables" ELSE "level"

\* Lines 515-516: continue.
MixmaxSkipLevel ==
    /\ pc = "level"
    /\ level_i \in 1..Len(_levels)
    /\ mixmax_skips(_levels[level_i])
    /\ MixmaxAdvance
    /\ UNCHANGED <<args, ret, data, peptide_pairing, desc, eval_fdr,
                   pep_fdr_type, _desc, level_df, confidence_estimates,
                   decoy_confidence_estimates, error>>

\* Lines 518-595: the loop body at a level that is not passed over.
MixmaxLevel ==
    /\ pc = "level"
    /\ level_i \in 1..Len(_levels)
    /\ ~mixmax_skips(_levels[level_i])
    /\ LET group_cols == listify(_level_columns[level_i])
       IN  \E ts \in mixmax_compete(loc_targets(data), group_cols, Desc),
              ds \in mixmax_compete(loc_decoys(data), group_cols, Desc) :
               confidence_estimates' =
                   Put(confidence_estimates, _levels[level_i],
                       mixmax_targets(ts, ds, Desc))
    /\ MixmaxAdvance
    /\ UNCHANGED <<args, ret, data, peptide_pairing, desc, eval_fdr,
                   pep_fdr_type, _desc, level_df,
                   decoy_confidence_estimates, error>>

NextMixmax ==
    \/ MixmaxInit
    \/ ConfidenceInit
    \/ MixmaxAssignConfidence
    \/ MixmaxSkipLevel
    \/ MixmaxLevel
    \/ PrettifyTables

SpecMixmax == InitMixmax /\ [][NextMixmax]_vars

MixmaxRunOver == args.fn = "MixmaxConfidence" /\ pc = "done"

\* C13 (as claimed): after a mix-max run confidence_estimates has an entry
\* for psms, none for peptides and none for proteins.
C13_OnlyPsmsComputed ==
    MixmaxRunOver =>
        /\ "psms" \in DOMAIN confidence_estimates
        /\ "peptides" \notin DOMAIN confidence_estimates
        /\ "proteins" \notin DOMAIN confidence_estimates

\* C13 (amended): under mix-max the peptides level is never computed, and
\* after a mix-max run confidence_estimates has an entry for psms and an
\* entry for proteins and none for peptides.
C13_PeptidesNotComputed ==
    args.fn = "MixmaxConfidence" =>
        /\ "peptides" \notin DOMAIN confidence_estimates
        /\ pc = "done" => DOMAIN confidence_estimates = {"psms", "proteins"}

\* C13 witness: a mix-max run has completed, with target PSMs and target
\* proteins in its results.
C13_Witness ==
    /\ MixmaxRunOver
    /\ "psms" \in DOMAIN confidence_estimates
    /\ "proteins" \in DOMAIN confidence_estimates
    /\ Len(confidence_estimates["psms"]) >= 1
    /\ Len(confidence_estimates["proteins"]) >= 1

----------------------------------------------------------------------------
(* PsmDataset.__init__ (dataset.py). *)

MaxDatasetRows == 3

\* The values a caller's target column can hold: bools and integers.
RawTargets ==
    {[kind |-> "bool", val |-> b] : b \in BOOLEAN}
        \cup {[kind |-> "int", val |-> v] : v \in {-1, 0, 1}}

\* Line 80: Series.astype(bool); an integer is true unless it is 0.
astype_bool(v) == IF v.kind = "bool" THEN v.val ELSE v.val # 0

\* The caller's rows: the columns the dataset names and one it does not.
CallerRows == [scan : 1..2, score : {1}, sequence : {1}, target : RawTargets,
               other : {0}]

CallerTables ==
    UNION {{WithIndex(t) : t \in [1..n -> CallerRows]} : n \in 0..MaxDatasetRows}

\* Lines 70-78: the spectrum, score, target and peptide columns.
fields == <<"scan", "score", _target_column, _peptide_column>>

\* Lines 79-80: the named columns of a copy, the target column as bools.
dataset_data(psms) ==
    [i \in 1..Len(psms) |->
        [c \in Range(fields) \cup {"index"} |->
            IF c = _target_column THEN astype_bool(psms[i][c]) ELSE psms[i][c]]]

\* Line 81: self.targets.sum()
num_targets(df) == Cardinality({i \in 1..Len(df) : df[i][_target_column]})

num_decoys_unnegated(df) ==
    Cardinality({i \in 1..Len(df) : df[i][_target_column]})

\* Line 82: (~self.targets).sum()
num_decoys(df) == Cardinality({i \in 1..Len(df) : ~df[i][_target_column]})

NoPsmsError == "ValueError: No PSMs were detected."
NoDecoysError == "ValueError: No decoy PSMs were detected."
NoTargetsError == "ValueError: No target PSMs were detected."

InitDataset ==
    /\ pc = "PsmDataset.__init__"
    /\ args \in [fn : {"PsmDataset"}, psms : CallerTables, copy_data : BOOLEAN]
    /\ ret = <<>>
    /\ RunIdle

\* PsmDataset.__init__, lines 64-91.
DatasetInit ==
    /\ pc = "PsmDataset.__init__"
    /\ args.fn = "PsmDataset"
    /\ LET _data == dataset_data(args.psms)
       IN  /\ data' = _data
           /\ IF _data = <<>> THEN Raise(NoPsmsError)
              ELSE IF num_decoys(_data) = 0 THEN Raise(NoDecoysError)
              ELSE IF num_targets(_data) = 0 THEN Raise(NoTargetsError)
              ELSE pc' = "constructed" /\ UNCHANGED error
    /\ UNCHANGED <<args, ret, peptide_pairing, desc, eval_fdr, pep_fdr_type,
                   _desc, level_i, level_df, confidence_estimates,
                   decoy_confidence_estimates>>

NextDataset == DatasetInit

SpecDataset == InitDataset /\ [][NextDataset]_vars

\* The caller's entries that count as targets and as decoys.
CallerTargets == {i \in 1..Len(args.psms) : astype_bool(args.psms[i].target)}
CallerDecoys == {i \in 1..Len(args.psms) : ~astype_bool(args.psms[i].target)}

\* C14: constructing a dataset raises a ValueError when the collection has
\* no entries, no target entry or no decoy entry, and only then; a dataset
\* that was constructed holds at least one target and at least one decoy and
\* every value of its target column is a boolean.
C14_DatasetValidation ==
    pc # "PsmDataset.__init__" =>
        /\ (args.psms = <<>> \/ CallerTargets = {} \/ CallerDecoys = {}) =>
               /\ pc = "raised"
               /\ error \in {NoPsmsError, NoDecoysError, NoTargetsError}
        /\ args.psms = <<>> => error = NoPsmsError
        /\ pc = "constructed" =>
               /\ error = "none"
               /\ \E i \in 1..Len(data) : data[i].target = TRUE
               /\ \E i \in 1..Len(data) : data[i].target = FALSE
               /\ \A i \in 1..Len(data) : data[i].target \in BOOLEAN
               /\ Len(data) = Len(args.psms)

\* C14 witness: a collection of three targets, flagged 1, -1 and True, was
\* rejected for having no decoy.
C14_Witness ==
    /\ pc = "raised"
    /\ error = NoDecoysError
    /\ Len(args.psms) = 3
    /\ \E i, j, k \in 1..3 :
           /\ args.psms[i].target = [kind |-> "int", val |-> 1]
           /\ args.psms[j].target = [kind |-> "int", val |-> -1]
           /\ args.psms[k].target = [kind |-> "bool", val |-> TRUE]

\* C15: no step of a TDC run changes the dataset's table: whatever the
\* pep_fdr_type, the table keeps its columns, its rows and their values.
C15_DataNeverMutated ==
    [][data' = data]_vars

----------------------------------------------------------------------------
(* The aggregation step of the proteins level on its own (lines 398-419):  *)
(* the PSM-level winners and the table that enters protein competition.    *)

InitProteins ==
    /\ pc = "call"
    /\ args \in [fn : {"protein_aggregation"}, df : Datasets, desc : BOOLEAN]
    /\ ret = <<>>
    /\ RunIdle

CallProteinAggregation ==
    /\ pc = "call"
    /\ args.fn = "protein_aggregation"
    /\ \E winners \in _compete(args.df, List(_spectrum_columns), args.desc) :
           ret' = [winners |-> winners,
                   aggregated |-> protein_aggregation(winners)]
    /\ pc' = "return"
    /\ UNCHANGED <<args, runVars>>

NextProteins == CallProteinAggregation

SpecProteins == InitProteins /\ [][NextProteins]_vars

RECURSIVE SumOver(_, _)
SumOver(S, df) ==
    IF S = {} THEN 0
    ELSE LET i == CHOOSE i \in S : TRUE
         IN  df[i].score + SumOver(S \ {i}, df)

\* The PSM-competition winners of a protein id and target flag.
WinnersOf(protein, target) ==
    {i \in 1..Len(ret.winners) :
        /\ ret.winners[i].protein = protein
        /\ ret.winners[i].target = target}

----------------------------------------------------------------------------
(* parsers/crux.py: _create_pairing.  A peptide sequence is the sequence   *)
(* of its characters, so that splitting, sorting, stripping and ranking    *)
(* work on the text as the code does.                                      *)

MaxPairingRows == 4

\* Code points of the characters that occur in the modelled sequences.
Ord(ch) ==
    CASE ch = "1" -> 49
      [] ch = "A" -> 65
      [] ch = "K" -> 75
      [] ch = "[" -> 91
      [] ch = "]" -> 93

\* Python's str comparison a < b.
StrLess(a, b) ==
    \/ \E i \in 1..Len(a) :
           /\ i <= Len(b)
           /\ Ord(a[i]) < Ord(b[i])
           /\ \A j \in 1..(i - 1) : a[j] = b[j]
    \/ Len(a) < Len(b) /\ \A j \in 1..Len(a) : a[j] = b[j]

IsUpper(ch) == Ord(ch) >= 65 /\ Ord(ch) <= 90

\* Line 180: str.split("(?=[A-Z])"): the text is cut before every capital
\* letter; a text that starts with one has an empty first piece.
split_before_upper(text) ==
    LET cuts == {0} \cup {i \in 1..Len(text) : IsUpper(text[i])}
                    \cup {Len(text) + 1}
        starts == cuts \ {Len(text) + 1}
        nth(k) == CHOOSE c \in starts :
                      Cardinality({x \in starts : x < c}) = k - 1
        end(c) == CHOOSE e \in cuts :
                      e > c /\ \A x \in cuts : x > c => e <= x
    IN  [k \in 1..Cardinality(starts) |->
            LET c == nth(k)
            IN  IF c = 0 THEN SubSeq(text, 1, end(c) - 1)
                ELSE SubSeq(text, c, end(c) - 1)]

\* Python's sorted() on a list of str.
RECURSIVE sorted(_)
sorted(strs) ==
    IF strs = <<>> THEN <<>>
    ELSE LET rest == sorted(SubSeq(strs, 1, Len(strs) - 1))
             x == strs[Len(strs)]
             n == Cardinality({i \in 1..Len(rest) : ~StrLess(x, rest[i])})
         IN  SubSeq(rest, 1, n) \o <<x>> \o SubSeq(rest, n + 1, Len(rest))

\* "".join(strs)
RECURSIVE join(_)
join(strs) == IF strs = <<>> THEN <<>> ELSE strs[1] \o join(Tail(strs))

\* Lines 178-182: the sorted pieces of the sequence, joined.
mods_of(sequence) == join(sorted(split_before_upper(sequence)))

\* Line 191: str.replace(r"\[.*?\]", ""): every "[" up to the next "]" is
\* removed.
strip_brackets(text) ==
    LET closed(i) == \E j \in i..Len(text) : text[j] = "]"
        \* inside[i]: character i lies within a removed bracket.
        inside[i \in 0..Len(text)] ==
            IF i = 0 THEN FALSE
            ELSE IF inside[i - 1] /\ text[i - 1] # "]" THEN TRUE
                 ELSE text[i] = "[" /\ closed(i)
    IN  SelectRows(text, [i \in 1..Len(text) |-> ~inside[i]])

rank_always_first(df, i, keys) == 1

\* Lines 194-195: groupby(keys)["sequence"].rank("first") for a row.
rank_first(df, i, keys) ==
    1 + Cardinality({j \in 1..Len(df) :
            /\ KeyOf(df[j], keys) = KeyOf(df[i], keys)
            /\ \/ StrLess(df[j].sequence, df[i].sequence)
               \/ df[j].sequence = df[i].sequence /\ j < i})

seq == "original target sequence"
req_fields == <<"sequence", "target/decoy", "original target sequence">>

join_on_mods_and_ord == <<"mods", "ord">>

\* Line 203: the columns of the inner join.
join_on == <<seq, "mods", "ord">>

\* Lines 170-208 under one outcome p of the shuffle: the pairs of the map.
create_pairing_with(pairing_data, p) ==
    LET deduped == drop_duplicates(sample(pairing_data, p), <<"sequence">>,
                                   "first")
        with_mods == SetColumn(deduped, "mods",
                         [i \in 1..Len(deduped) |-> mods_of(deduped[i].sequence)])
        is_decoy == [i \in 1..Len(with_mods) |->
                        with_mods[i]["target/decoy"] = "decoy"]
        targets0 == SelectRows(with_mods,
                        [i \in 1..Len(with_mods) |-> ~is_decoy[i]])
        decoys0 == SelectRows(with_mods, is_decoy)
        targets1 == SetColumn(targets0, seq,
                        [i \in 1..Len(targets0) |->
                            strip_brackets(targets0[i].sequence)])
        targets == SetColumn(targets1, "ord",
                       [i \in 1..Len(targets1) |->
                           rank_first(targets1, i, <<seq, "mods">>)])
        decoys == SetColumn(decoys0, "ord",
                      [i \in 1..Len(decoys0) |->
                          rank_first(decoys0, i, <<seq, "mods">>)])
    IN  {<<targets[i].sequence, decoys[j].sequence>> :
            <<i, j>> \in {ij \in (1..Len(targets)) \X (1..Len(decoys)) :
                KeyOf(targets[ij[1]], join_on) = KeyOf(decoys[ij[2]], join_on)}}

\* Line 208: to_dict() of the merged pairs; a later pair of a key replaces
\* an earlier one, and the exact join yields at most one pair per key.
to_dict(pairs) ==
    [t \in {pr[1] : pr \in pairs} |-> (CHOOSE pr \in pairs : pr[1] = t)[2]]

\* Every map _create_pairing can return: one per outcome of the shuffle.
_create_pairing(pairing_data) ==
    {to_dict(create_pairing_with(pairing_data, p)) :
        p \in Permutations(1..Len(pairing_data))}

all_required(columns) == Range(req_fields)

\* Line 165: set(req_fields) - set(pairing_data.columns)
missing_columns(columns) == Range(req_fields) \ columns

\* The orders in which ", ".join lists a set.
Orderings(S) ==
    {f \in [1..Cardinality(S) -> S] : \A i, j \in DOMAIN f : f[i] = f[j] => i = j}

\* Lines 166-168.
PairingColumnsError(miss) ==
    [type |-> "ValueError",
     msg |-> "Required columns for peptide pairing were not detected: ",
     miss |-> miss]

\* The peptides of the modelled files, each with its sequence stripped of
\* modifications: two modified forms of AAK, two modified forms of its
\* shuffle KAA, and the unmodified AAK.
PairingPeptides ==
    <<[sequence |-> <<"A", "[", "1", "]", "A", "K">>, plain |-> <<"A", "A", "K">>],
      [sequence |-> <<"A", "A", "[", "1", "]", "K">>, plain |-> <<"A", "A", "K">>],
      [sequence |-> <<"K", "A", "[", "1", "]", "A">>, plain |-> <<"K", "A", "A">>],
      [sequence |-> <<"K", "A", "A", "[", "1", "]">>, plain |-> <<"K", "A", "A">>],
      [sequence |-> <<"A", "A", "K">>, plain |-> <<"A", "A", "K">>]>>

PairingColumns ==
    {"sequence", "target/decoy", "original target sequence", "peptide mass"}

\* Row number r of the files, with the columns `columns`: each peptide as a
\* target, whose original target sequence is its own, and as a decoy
\* generated from the target AAK.
PairingRow(r, columns) ==
    LET peptide == PairingPeptides[(r \div 2) + 1]
        full == ("sequence" :> peptide.sequence)
                @@ ("target/decoy" :> IF r % 2 = 0 THEN "target" ELSE "decoy")
                @@ ("original target sequence" :>
                        IF r % 2 = 0 THEN peptide.plain ELSE <<"A", "A", "K">>)
                @@ ("peptide mass" :> 1)
    IN  [c \in columns |-> full[c]]

\* The tables of at most n rows; the builder shuffles its input, so a table
\* is drawn in one order of its rows.
PairingTables(n, columns) ==
    UNION {{WithIndex([i \in 1..k |-> PairingRow(t[i], columns)]) :
                t \in {t \in [1..k -> 0..(2 * Len(PairingPeptides) - 1)] :
                          \A i \in 1..(k - 1) : t[i] <= t[i + 1]}} :
           k \in 0..n}

\* Whole files have every column; a file lacking a column has one row.
InitPairing ==
    /\ pc = "call"
    /\ \E columns \in SUBSET PairingColumns :
           \E df \in PairingTables(IF columns = PairingColumns
                                   THEN MaxPairingRows ELSE 1, columns) :
               args = [fn |-> "_create_pairing", pairing_data |-> df,
                       columns |-> columns]
    /\ ret = <<>>
    /\ RunIdle

\* _create_pairing, lines 139-208.
CallCreatePairing ==
    /\ pc = "call"
    /\ args.fn = "_create_pairing"
    /\ IF missing_columns(args.columns) # {}
       THEN /\ \E miss \in Orderings(missing_columns(args.columns)) :
                   Raise(PairingColumnsError(miss))
            /\ UNCHANGED ret
       ELSE /\ \E pairing \in _create_pairing(
                    LocColumns(args.pairing_data, req_fields)) :
                   ret' = pairing
            /\ pc' = "return"
            /\ UNCHANGED error
    /\ UNCHANGED <<args, data, peptide_pairing, desc, eval_fdr, pep_fdr_type,
                   _desc, level_i, level_df, confidence_estimates,
                   decoy_confidence_estimates>>

NextPairing == CallCreatePairing

SpecPairing == InitPairing /\ [][NextPairing]_vars

\* The sequences of the input entries labelled `label`.
SequencesLabelled(label) ==
    {args.pairing_data[i].sequence :
        i \in {j \in 1..Len(args.pairing_data) :
                  args.pairing_data[j]["target/decoy"] = label}}

\* C17: every key of the map _create_pairing returns is the sequence of an
\* input entry labelled target, every value is the sequence of an input
\* entry labelled decoy, and no two keys have the same value.
C17_PairingIsInjective ==
    Returned("_create_pairing") =>
        /\ \A t \in DOMAIN ret :
               /\ t \in SequencesLabelled("target")
               /\ ret[t] \in SequencesLabelled("decoy")
        /\ \A t, u \in DOMAIN ret : ret[t] = ret[u] => t = u

\* C17 witness: two targets of one composition were paired, each with a
\* decoy of its own.
C17_Witness ==
    /\ Returned("_create_pairing")
    /\ \E t, u \in DOMAIN ret :
           /\ t # u
           /\ mods_of(t) = mods_of(u)
           /\ ret[t] # ret[u]

C19_FailedLevelAbortsRun ==
    /\ [](args.fn = "TdcConfidence" =>
            /\ error # "none" => pc = "raised"
            /\ pc = "done" =>
                   /\ error = "none"
                   /\ DOMAIN confidence_estimates =
                          {"psms", "peptides", "proteins"}
                   /\ DOMAIN decoy_confidence_estimates =
                          {"psms", "peptides", "proteins"})
    /\ [][pc # "raised"]_vars

\* C19 witness: the peptides level raised after the psms level had stored
\* its target and decoy tables, and nothing was returned.
C19_Witness ==
    /\ args.fn = "TdcConfidence"
    /\ pc = "raised"
    /\ error = PepFdrTypeError
    /\ DOMAIN confidence_estimates = {"psms"}
    /\ DOMAIN decoy_confidence_estimates = {"psms"}
    /\ Len(confidence_estimates["psms"]) + Len(decoy_confidence_estimates["psms"]) >= 2

\* The pairing class of a sequence under the run's pairing map.
PairingClass(x) ==
    IF x \in DOMAIN peptide_pairing.map THEN peptide_pairing.map[x] ELSE x

\* The sequences with a row in the peptide-level target or decoy table.
PeptideResults ==
    {confidence_estimates["peptides"][k].sequence :
        k \in 1..Len(confidence_estimates["peptides"])}
    \cup {decoy_confidence_estimates["peptides"][k].sequence :
              k \in 1..Len(decoy_confidence_estimates["peptides"])}

PeptideResultRows ==
    Len(confidence_estimates["peptides"])
        + Len(decoy_confidence_estimates["peptides"])

PairedPeptideLevelStored ==
    /\ args.fn = "TdcConfidence"
    /\ pep_fdr_type \in {"peptide-only", "psm-peptide"}
    /\ ~peptide_pairing.none
    /\ "peptides" \in DOMAIN confidence_estimates

\* At most one row per pairing class in the peptide-level tables.
OneRowPerPairingClass ==
    /\ PeptideResultRows = Cardinality(PeptideResults)
    /\ \A x, y \in PeptideResults : PairingClass(x) = PairingClass(y) => x = y

\* C21 (as claimed): under peptide-only or psm-peptide with pairing map P the
\* peptide-level target and decoy tables together hold at most one row per
\* pairing class, and for every target t with P[t] = d never both a row for
\* t and a row for d.
C21_TargetAndDecoyNeverBoth ==
    PairedPeptideLevelStored =>
        /\ OneRowPerPairingClass
        /\ \A t \in DOMAIN peptide_pairing.map :
               peptide_pairing.map[t] # t =>
                   ~(t \in PeptideResults
                         /\ peptide_pairing.map[t] \in PeptideResults)

\* C21 (amended): at most one row per pairing class, and for every target t
\* with P[t] = d, where d is not itself a key of P with another value, never
\* both a row for t and a row for d.
C21_OneRowPerPairingClass ==
    PairedPeptideLevelStored =>
        /\ OneRowPerPairingClass
        /\ \A t \in DOMAIN peptide_pairing.map :
               LET d == peptide_pairing.map[t]
               IN  (d # t /\ PairingClass(d) = d) =>
                       ~(t \in PeptideResults /\ d \in PeptideResults)

\* C21 witness: the dataset holds target 1 and its decoy 2, whose decoy is
\* not a key of the map, and the peptide level of a completed peptide-only
\* run kept one of the two.
C21_Witness ==
    /\ PairedPeptideLevelStored
    /\ pc = "done"
    /\ pep_fdr_type = "peptide-only"
    /\ peptide_pairing.map = (1 :> 2)
    /\ \E i, j \in 1..Len(data) : data[i].sequence = 1 /\ data[j].sequence = 2
    /\ Cardinality(PeptideResults \cap {1, 2}) = 1

\* The number of PSMs of the dataset whose TDC q-value in direction d is at
\* most eval_fdr.
Passing(d) ==
    LET q == tdc([i \in 1..Len(data) |-> data[i].score],
                 [i \in 1..Len(data) |-> data[i].target], d)
    IN  Cardinality({i \in 1..Len(data) :
                        q[i][1] * eval_fdr[2] <= eval_fdr[1] * q[i][2]})

\* Row a scores strictly better than row b in the run's direction.
BetterRow(a, b) ==
    IF _desc = "True" THEN a.score > b.score ELSE a.score < b.score

SameSpectrum(a, b) == a.file = b.file /\ a.scan = b.scan

\* The rows of the dataset in the peptide-level group of row r.
SamePeptideGroup(a, r) ==
    IF pep_fdr_type = "classic" THEN a.sequence = r.sequence
    ELSE PairingClass(a.sequence) = PairingClass(r.sequence)

\* The q-values of a stored level are those of its scores in the run's
\* direction.
LevelUsesDirection(level) ==
    LET df == level_df[level]
    IN  /\ [k \in 1..Len(df) |-> df[k][QValueColumn]] =
               tdc([k \in 1..Len(df) |-> df[k].score],
                   [k \in 1..Len(df) |-> df[k].target], _desc = "True")
        /\ \A k, l \in 1..Len(df) :
               BetterRow(df[k], df[l]) =>
                   FracLeq(df[k][QValueColumn], df[l][QValueColumn])

\* C22: when desc is not supplied, the direction is higher-is-better exactly
\* when more PSMs have a TDC q-value of at most eval_fdr in that direction
\* than in the lower-is-better direction (a tie gives lower-is-better); once
\* set it never changes; the q-values of every level are computed in it, a
\* PSM-level winner is the best of its spectrum in it, and no row of a
\* peptide-level winner's group that scores better in it than the winner
\* could have entered the peptide competition unbeaten.
C22_DirectionSelection ==
    /\ []((desc = "None" /\ _desc # "unset") =>
            /\ _desc = "True" <=> Passing(TRUE) > Passing(FALSE)
            /\ _desc = "False" <=> Passing(TRUE) <= Passing(FALSE)
            /\ \A level \in DOMAIN level_df : LevelUsesDirection(level)
            /\ "psms" \in DOMAIN level_df =>
                   \A k \in 1..Len(level_df["psms"]) :
                       \A i \in 1..Len(data) :
                           SameSpectrum(data[i], level_df["psms"][k]) =>
                               ~BetterRow(data[i], level_df["psms"][k])
            /\ "peptides" \in DOMAIN level_df =>
                   \A k \in 1..Len(level_df["peptides"]) :
                       \A i \in 1..Len(data) :
                           (/\ SamePeptideGroup(data[i], level_df["peptides"][k])
                            /\ BetterRow(data[i], level_df["peptides"][k])) =>
                               /\ pep_fdr_type = "psm-peptide"
                               /\ \E j \in 1..Len(data) :
                                      /\ j # i
                                      /\ SameSpectrum(data[j], data[i])
                                      /\ ~BetterRow(data[i], data[j]))
    /\ [][_desc # "unset" => _desc' = _desc]_vars

\* C22 witness: with desc not supplied, lower-is-better was selected on a
\* tie and a run has completed in which the PSM winner of a spectrum with
\* two different scores is the lower one.
C22_Witness ==
    /\ args.fn = "TdcConfidence"
    /\ pc = "done"
    /\ desc = "None"
    /\ _desc = "False"
    /\ Passing(TRUE) = Passing(FALSE)
    /\ Passing(TRUE) > 0
    /\ \E i, j \in 1..Len(data) :
           /\ SameSpectrum(data[i], data[j])
           /\ data[i].score < data[j].score

\* The residue+modification tokens of a sequence, each with the number of
\* times it occurs.
Composition(text) ==
    LET tokenAt(i) ==
            SubSeq(text, i,
                   CHOOSE e \in i..Len(text) :
                       /\ \A j \in (i + 1)..e : ~IsUpper(text[j])
                       /\ e = Len(text) \/ IsUpper(text[e + 1]))
        starts == {i \in 1..Len(text) : IsUpper(text[i])}
        tokens == {tokenAt(i) : i \in starts}
    IN  [tok \in tokens |-> Cardinality({i \in starts : tokenAt(i) = tok})]

\* A sequence of the modelled files without its modification brackets.
PlainOf(sequence) ==
    (CHOOSE p \in Range(PairingPeptides) : p.sequence = sequence).plain

\* The input entries labelled decoy that a target sequence t can join: the
\* same composition, and t without brackets as original target sequence.
DecoysJoining(t) ==
    {j \in 1..Len(args.pairing_data) :
        /\ args.pairing_data[j]["target/decoy"] = "decoy"
        /\ Composition(args.pairing_data[j].sequence) = Composition(t)
        /\ args.pairing_data[j]["original target sequence"] = PlainOf(t)}

\* C23: in the map _create_pairing returns, every pair (t, d) is such that d
\* is the sequence of a decoy entry with the composition of t and with t
\* stripped of its brackets as recorded original target sequence; so a
\* target that no decoy joins is not a key, a decoy that joins no target is
\* not a value, and no sequence is paired with itself.
C23_PairsShareJoinKey ==
    Returned("_create_pairing") =>
        /\ \A t \in DOMAIN ret :
               /\ \E j \in DecoysJoining(t) :
                      args.pairing_data[j].sequence = ret[t]
               /\ ret[t] # t
        /\ \A t \in SequencesLabelled("target") :
               DecoysJoining(t) = {} => t \notin DOMAIN ret
        /\ \A d \in SequencesLabelled("decoy") :
               (\A t \in SequencesLabelled("target") :
                    \A j \in DecoysJoining(t) :
                        args.pairing_data[j].sequence # d)
                   => \A t \in DOMAIN ret : ret[t] # d

\* C23 witness: a modified target was paired with a reordering of itself,
\* while another target, which has a decoy of its composition but generated
\* from a different target, is not in the map.
C23_Witness ==
    /\ Returned("_create_pairing")
    /\ \E t \in DOMAIN ret :
           /\ PlainOf(t) # t
           /\ ret[t] # t
           /\ Composition(ret[t]) = Composition(t)
    /\ \E u \in SequencesLabelled("target") :
           /\ u \notin DOMAIN ret
           /\ DecoysJoining(u) = {}
           /\ \E d \in SequencesLabelled("decoy") :
                  d # u /\ Composition(d) = Composition(u)

====
